---- MODULE Spec2Model ----
(***************************************************************************)
(* The serving layer of the chatbot: WebChatSession and WebInterface       *)
(* (src/web_interface.py), the FastAPI handlers that drive them            *)
(* (src/web_server.py) and QueryEngine.query (src/query_engine.py).        *)
(*                                                                         *)
(* The server is a single-threaded asyncio event loop.  A step of the      *)
(* model is what one coroutine does between two suspension points: the     *)
(* awaits of websocket.send_text, websocket.receive_text and               *)
(* loop.run_in_executor.  The query itself runs on a worker thread.        *)
(***************************************************************************)
EXTENDS Integers, Sequences, FiniteSets, TLC

(* ------------------------------ bounds -------------------------------- *)
NumTasks == 2       \* handler coroutines started during a run, each a
                    \* websocket connection or a POST /api/chat request
MaxGen == 2         \* session ids create_session may generate
MaxQueries == 1     \* queries accepted during a run
MaxTime == 1        \* ticks of the clock
MaxAge == 0         \* largest max_age_hours given to cleanup_old_sessions
MaxLimit == 2       \* largest limit given to the history endpoint
LoadTasks == 3      \* handler coroutines of a run under load
LoadQueries == 2    \* queries accepted during a run under load
MaxBoots == 3       \* runs of the program, one after the other

Handlers == 1..NumTasks         \* the coroutines of an ordinary run
Tasks == 1..LoadTasks           \* every coroutine frame there is
GenIds == 1..MaxGen             \* str(uuid.uuid4()) of create_session
UrlIds == {0}                   \* a session id only a client made up
SessionIds == GenIds \cup UrlIds
Queries == {"qa", "qb"}         \* non-empty query texts
\* texts are interchangeable: the first query of a run is "qa"
Texts(n) == IF n = 0 THEN {"qa"} ELSE Queries
\* the ids a client can name: made up, or handed out by the server before
Known(gen) == UrlIds \cup {g \in GenIds : g < gen}
NoSid == -1
NoMsg ==
    [id |-> 0, role |-> "", content |-> "", timestamp |-> 0, metadata |-> {}]

VARIABLES
    sessions,            \* WebInterface.sessions: id -> WebChatSession
    active_connections,  \* WebInterface.active_connections: id -> list
    task,                \* the frame of every handler coroutine
    future,              \* the run_in_executor future of every handler
    open,                \* is the transport of a websocket still open
    now,                 \* datetime.now()
    nextMsg,             \* the next uuid4 of a message
    nextSession,         \* the next uuid4 of a session
    nq,                  \* queries accepted so far
    disk,                \* the file INDEX_PERSIST_DIR/index.pkl
    boot                 \* the run of web_main.main: position and locals

serving == <<sessions, active_connections, task, future, open, now, nextMsg,
             nextSession, nq>>
startup == <<disk, boot>>
vars == <<sessions, active_connections, task, future, open, now, nextMsg,
          nextSession, nq, disk, boot>>

(* ------------------------- sequences as lists -------------------------- *)
Range(seq) == {seq[i] : i \in 1..Len(seq)}

\* list.remove(x): drops the first occurrence; ValueError when absent
IndexOf(seq, x) ==
    IF x \in Range(seq)
    THEN CHOOSE i \in 1..Len(seq) : seq[i] = x /\ \A j \in 1..(i - 1) : seq[j] # x
    ELSE 0

ListRemove(seq, x) ==
    LET i == IndexOf(seq, x)
    IN  SubSeq(seq, 1, i - 1) \o SubSeq(seq, i + 1, Len(seq))

IsPrefix(a, b) == Len(a) <= Len(b) /\ SubSeq(b, 1, Len(a)) = a

(* --------------------------- WebChatSession ---------------------------- *)
WebChatSession(session_id, t) ==
    [session_id |-> session_id, created_at |-> t, messages |-> <<>>,
     last_activity |-> t]

\* the dict built at lines 25-31; uuid and clock are the call's inputs
NewMessage(uuid, role, content, t, metadata) ==
    [id |-> uuid, role |-> role, content |-> content, timestamp |-> t,
     metadata |-> metadata]

add_messageDropsOld(session, message, t) ==
    [session EXCEPT !.messages = <<message>>, !.last_activity = t]

add_messagePrepends(session, message, t) ==
    [session EXCEPT !.messages = <<message>> \o @, !.last_activity = t]

\* list.insert(-1, message) for list.append(message)
add_messageBeforeLast(session, message, t) ==
    LET n == Len(session.messages)
    IN  [session EXCEPT
            !.messages = IF n = 0 THEN <<message>>
                         ELSE Append(SubSeq(@, 1, n - 1), message) \o <<@[n]>>,
            !.last_activity = t]

add_message(session, message, t) ==
    [session EXCEPT !.messages = Append(@, message), !.last_activity = t]

\* Optional[int]: None, or an int
None == <<>>
Some(n) == <<n>>
\* the limits a client gives; the slice below is defined for negative ones too
Limits == {None} \cup {Some(n) : n \in 0..MaxLimit}

\* messages[-limit:] of line 39: the last limit elements for 0 < limit,
\* all but the first -limit for limit < 0
Slice(messages, limit) ==
    LET n == Len(messages)
        from == IF limit > 0
                THEN (IF limit >= n THEN 1 ELSE n - limit + 1)
                ELSE (0 - limit) + 1
    IN  SubSeq(messages, from, n)

\* `if limit:` is false for None and for 0
get_history(session, limit) ==
    IF limit # None /\ limit[1] # 0
    THEN Slice(session.messages, limit[1])
    ELSE session.messages

(* ----------------------------- QueryEngine ----------------------------- *)
BackendOutcomes == {"ok", "fail"}   \* RetrieverQueryEngine.query returns or raises

\* what the call hands to its caller: a returned value or a raised exception
queryPropagates(query_text, outcome) ==
    IF outcome = "ok"
    THEN [raised |-> FALSE, type |-> "str", text |-> <<"answer", query_text>>]
    ELSE [raised |-> TRUE, type |-> "Exception", text |-> <<"backend", "down">>]

query(query_text, outcome) ==
    IF outcome = "ok"
    THEN [raised |-> FALSE, type |-> "str", text |-> <<"answer", query_text>>]
    ELSE [raised |-> FALSE, type |-> "str",
          text |-> <<"Error processing query: ", "backend down">>]

NoFuture == [state |-> "none"]
Pending == [state |-> "pending"]

(* ------------------------------- frames -------------------------------- *)
IdleFrame ==
    [pc |-> "idle", kind |-> "none", sid |-> NoSid, query |-> "", bk |-> "none",
     live |-> FALSE, snap |-> <<>>, idx |-> 0, cur |-> 0, active |-> <<>>,
     start |-> <<>>, failed |-> {}, mutated |-> FALSE,
     sessLive |-> FALSE, user_message |-> NoMsg, assistant_message |-> NoMsg,
     events |-> <<>>, calls |-> 0, outcome |-> "none", result |-> "none",
     history |-> <<>>, err |-> "", req |-> NoSid, limit |-> None,
     info |-> None, seq |-> 0]

\* the part of the state a coroutine changes while it runs
World ==
    [s |-> sessions, ac |-> active_connections, task |-> task,
     fut |-> future, mid |-> nextMsg, gen |-> nextSession]

Commit(w) ==
    /\ sessions' = w.s
    /\ active_connections' = w.ac
    /\ task' = w.task
    /\ future' = w.fut
    /\ nextMsg' = w.mid
    /\ nextSession' = w.gen

(* ----------------------------- WebInterface ---------------------------- *)
Put(f, k, v) == (k :> v) @@ f

\* an id generator that hands out the same id again
create_sessionReusesId(w) ==
    [w EXCEPT !.s = Put(@, 1, WebChatSession(1, now)),
              !.ac = Put(@, 1, <<>>),
              !.gen = @ + 1]

\* lines 60-65; the generated id is w.gen
create_session(w) ==
    [w EXCEPT !.s = Put(@, w.gen, WebChatSession(w.gen, now)),
              !.ac = Put(@, w.gen, <<>>),
              !.gen = @ + 1]

add_connection(ac, session_id, websocket) ==
    IF session_id \notin DOMAIN ac
    THEN Put(ac, session_id, <<websocket>>)
    ELSE [ac EXCEPT ![session_id] = Append(@, websocket)]

remove_connectionClears(ac, session_id, websocket) ==
    IF session_id \in DOMAIN ac
    THEN [ac EXCEPT ![session_id] = <<>>]
    ELSE ac

remove_connection(ac, session_id, websocket) ==
    IF session_id \in DOMAIN ac /\ websocket \in Range(ac[session_id])
    THEN [ac EXCEPT ![session_id] = ListRemove(@, websocket)]
    ELSE ac

\* lines 198-203
get_session_history(s, session_id, limit) ==
    IF session_id \notin DOMAIN s THEN <<>>
    ELSE get_history(s[session_id], limit)

\* lines 205-216: None, or the dict
get_session_info(s, session_id) ==
    IF session_id \notin DOMAIN s THEN None
    ELSE Some([session_id |-> s[session_id].session_id,
               created_at |-> s[session_id].created_at,
               last_activity |-> s[session_id].last_activity,
               message_count |-> Len(s[session_id].messages)])

\* the list object a suspended broadcast iterates: the session's current
\* list while it is still the one the loop began on, else the old object
IterList(w, t) ==
    IF w.task[t].live THEN w.ac[w.task[t].sid] ELSE w.task[t].snap

\* rebinding or deleting active_connections[sid] leaves the loops that
\* iterate the old list object with that object
Unbind(tasks, ac, sid, except) ==
    [u \in Tasks |->
        IF u # except /\ tasks[u].live /\ tasks[u].sid = sid
        THEN [tasks[u] EXCEPT !.live = FALSE, !.snap = ac[sid]]
        ELSE tasks[u]]

\* a remove() that changed the list some loop is iterating
Disturb(tasks, ac, sid, websocket) ==
    [u \in Tasks |->
        IF /\ tasks[u].live /\ tasks[u].sid = sid
           /\ sid \in DOMAIN ac /\ websocket \in Range(ac[sid])
        THEN [tasks[u] EXCEPT !.mutated = TRUE]
        ELSE tasks[u]]

EventOf(bk) ==
    CASE bk = "umsg" -> "message_user"
      [] bk = "tstart" -> "typing_start"
      [] bk \in {"tstop", "etstop"} -> "typing_stop"
      [] bk \in {"amsg", "emsg"} -> "message_assistant"

\* the assistant message written over the last message
RecordOverwrites(w, t, role, content, metadata) ==
    LET f == w.task[t]
        m == NewMessage(w.mid, role, content, now, metadata)
        w1 == [w EXCEPT !.mid = @ + 1,
                        !.task[t] = IF role = "user"
                                    THEN [@ EXCEPT !.user_message = m]
                                    ELSE [@ EXCEPT !.assistant_message = m]]
    IN  IF role = "user"
        THEN [w1 EXCEPT !.s[f.sid] = add_message(@, m, now)]
        ELSE [w1 EXCEPT !.s[f.sid].messages[Len(w.s[f.sid].messages)] = m]

\* one messages list shared by every session
RecordSharedList(w, t, role, content, metadata) ==
    LET m == NewMessage(w.mid, role, content, now, metadata)
        w1 == [w EXCEPT !.mid = @ + 1,
                        !.task[t] = IF role = "user"
                                    THEN [@ EXCEPT !.user_message = m]
                                    ELSE [@ EXCEPT !.assistant_message = m]]
    IN  [w1 EXCEPT !.s = [id \in DOMAIN w.s |-> add_message(w.s[id], m, now)]]

\* session.add_message(...) of a handler; appending to a session object the
\* sweep took out of the table changes nothing the table shows
Record(w, t, role, content, metadata) ==
    LET f == w.task[t]
        m == NewMessage(w.mid, role, content, now, metadata)
        w1 == [w EXCEPT !.mid = @ + 1,
                        !.task[t] = IF role = "user"
                                    THEN [@ EXCEPT !.user_message = m]
                                    ELSE [@ EXCEPT !.assistant_message = m]]
    IN  IF f.sessLive
        THEN [w1 EXCEPT !.s[f.sid] = add_message(@, m, now)]
        ELSE w1

\* the locals of a finished broadcast_to_session call
ClearLoop(f) ==
    [f EXCEPT !.live = FALSE, !.snap = <<>>, !.idx = 0, !.cur = 0,
              !.active = <<>>, !.start = <<>>, !.failed = {},
              !.mutated = FALSE]

\* process_query_async returns to its caller: the websocket loop goes back
\* to receive_text (line 190), the REST handler builds its response
Return(w, t, res) ==
    [w EXCEPT !.task[t] =
        [@ EXCEPT !.pc = IF w.task[t].kind = "ws" THEN "recv" ELSE "done",
                  !.result = res, !.bk = "none"]]

\* line 100
BroadcastEnd(w, t) ==
    LET f == w.task[t]
        rest == IF f.sid \in DOMAIN w.ac
                THEN Unbind(w.task, w.ac, f.sid, t)
                ELSE w.task
    IN  [w EXCEPT !.ac = Put(@, f.sid, f.active),
                  !.task = [rest EXCEPT ![t] = ClearLoop(@)]]

RECURSIVE BroadcastBegin(_, _, _, _), BroadcastLoop(_, _, _), AfterBroadcast(_, _, _)

\* lines 87-92: broadcast_to_session up to the first send
BroadcastBegin(w, t, bk, x) ==
    LET f == w.task[t]
        w1 == [w EXCEPT !.task[t] =
                  [@ EXCEPT !.bk = bk, !.events = Append(@, EventOf(bk)),
                            !.live = f.sid \in DOMAIN w.ac, !.snap = <<>>,
                            !.idx = 0, !.cur = 0, !.active = <<>>,
                            !.start = IF f.sid \in DOMAIN w.ac
                                      THEN w.ac[f.sid] ELSE <<>>,
                            !.failed = {}, !.mutated = FALSE]]
    IN  IF f.sid \notin DOMAIN w.ac
        THEN AfterBroadcast(w1, t, x)
        ELSE BroadcastLoop(w1, t, x)

\* line 92: the list iterator's next(); it suspends in send_text (line 94)
BroadcastLoop(w, t, x) ==
    LET f == w.task[t]
        lst == IterList(w, t)
    IN  IF f.idx < Len(lst)
        THEN [w EXCEPT !.task[t] =
                 [@ EXCEPT !.pc = "send", !.cur = lst[f.idx + 1],
                           !.idx = f.idx + 1]]
        ELSE AfterBroadcast(BroadcastEnd(w, t), t, x)

\* the except block, lines 173-178
OnErrorSkipsTypingStop(w, t, e, x) ==
    LET w1 == Record([w EXCEPT !.task[t].err = e], t, "assistant",
                     <<"Error processing query: ", e>>, {"error"})
    IN  BroadcastBegin(w1, t, "emsg", x)

OnError(w, t, e, x) ==
    BroadcastBegin([w EXCEPT !.task[t].err = e], t, "etstop", x)

\* self.query_engine.query(query) called on the event loop
OffloadInline(w, t, x) ==
    LET w1 == [w EXCEPT !.task[t].calls = @ + 1, !.task[t].outcome = "ok"]
    IN  BroadcastBegin(
            Record(w1, t, "assistant", query(w.task[t].query, "ok").text,
                   {"model", "top_k"}),
            t, "tstop", x)

\* lines 137-142: x says whether the executor takes the call
Offload(w, t, x) ==
    IF x
    THEN [w EXCEPT !.task[t].pc = "exec", !.fut[t] = Pending]
    ELSE OnError(w, t, "executor down", x)

\* process_query_async between two broadcasts
AfterBroadcast(w, t, x) ==
    LET f == w.task[t]
    IN  CASE f.bk = "umsg" -> BroadcastBegin(w, t, "tstart", x)
          [] f.bk = "tstart" -> Offload(w, t, x)
          [] f.bk = "tstop" -> BroadcastBegin(w, t, "amsg", x)
          [] f.bk = "amsg" -> Return(w, t, "success")
          [] f.bk = "etstop" ->
                BroadcastBegin(
                    Record(w, t, "assistant",
                           <<"Error processing query: ", f.err>>, {"error"}),
                    t, "emsg", x)
          [] f.bk = "emsg" -> Return(w, t, "error")

\* a failed answer sent to the backend once more
OnResponseRetries(w, t, response_text, x) ==
    IF response_text[1] = "Error processing query: " /\ w.task[t].calls < 2
    THEN [w EXCEPT !.fut[t] = Pending]
    ELSE BroadcastBegin(
             Record(w, t, "assistant", response_text, {"model", "top_k"}),
             t, "tstop", x)

OnResponseSkipsTypingStop(w, t, response_text, x) ==
    BroadcastBegin(
        Record(w, t, "assistant", response_text, {"model", "top_k"}),
        t, "amsg", x)

\* lines 144-158: the awaited call returned response_text
OnResponse(w, t, response_text, x) ==
    BroadcastBegin(
        Record(w, t, "assistant", response_text, {"model", "top_k"}),
        t, "tstop", x)

\* lines 113-118; seq numbers the calls in the order they are made
SessionNotFound(w, t, q) ==
    [w EXCEPT !.task[t] =
        [@ EXCEPT !.pc = IF w.task[t].kind = "ws" THEN "recv" ELSE "done",
                  !.result = "not_found", !.seq = nq + 1,
                  !.query = q, !.events = <<>>, !.calls = 0,
                  !.outcome = "none", !.sessLive = FALSE,
                  !.user_message = NoMsg, !.assistant_message = NoMsg]]

process_query_asyncMakesSession(w, t, session_id, q, x) ==
    IF session_id \notin DOMAIN w.s
    THEN SessionNotFound(
             [w EXCEPT !.s = Put(@, session_id, WebChatSession(session_id, now))],
             t, q)
    ELSE LET w1 == [w EXCEPT !.task[t] =
                      [@ EXCEPT !.sid = session_id, !.query = q,
                                !.seq = nq + 1,
                                !.sessLive = TRUE, !.events = <<>>,
                                !.calls = 0, !.outcome = "none",
                                !.result = "none", !.err = "",
                                !.user_message = NoMsg,
                                !.assistant_message = NoMsg]]
         IN  BroadcastBegin(Record(w1, t, "user", q, {}), t, "umsg", x)

\* lines 113-134
process_query_async(w, t, session_id, q, x) ==
    IF session_id \notin DOMAIN w.s
    THEN SessionNotFound(w, t, q)
    ELSE LET w1 == [w EXCEPT !.task[t] =
                      [@ EXCEPT !.sid = session_id, !.query = q,
                                !.seq = nq + 1,
                                !.sessLive = TRUE, !.events = <<>>,
                                !.calls = 0, !.outcome = "none",
                                !.result = "none", !.err = "",
                                !.user_message = NoMsg,
                                !.assistant_message = NoMsg]]
         IN  BroadcastBegin(Record(w1, t, "user", q, {}), t, "umsg", x)

(* ------------------------------- startup ------------------------------- *)
\* a Document is its text, a sequence of sentences
Sentences == {"sa", "sb"}
Corpora ==
    {<<>>, << <<"sa", "sb", "sa">> >>, << <<"sb">>, <<"sb", "sa">> >>}

\* the files under DOCS_DIR in the order os.walk gives them: extension,
\* text, and whether the file's processor raises on it
DocFile(ext, text, raises) == [ext |-> ext, text |-> text, raises |-> raises]
Trees ==
    {<<>>,
     <<DocFile(".md", <<"sa", "sb", "sa">>, FALSE)>>,
     <<DocFile(".MD", <<"sb">>, FALSE), DocFile(".pdf", <<"sa">>, TRUE),
       DocFile(".txt", <<"sa">>, FALSE), DocFile(".rst", <<"sb", "sa">>, FALSE)>>,
     <<DocFile(".md", <<"sa", "sb", "sa">>, FALSE), DocFile(".json", <<"sb">>, TRUE)>>,
     <<DocFile(".txt", <<"sb">>, FALSE), DocFile(".csv", <<"sa">>, TRUE)>>}

\* document_processor.py lines 34-43: the keys of processors
Processors == {".md", ".docx", ".pdf", ".csv", ".json", ".log", ".adoc", ".rst"}

\* str.lower on an extension
Lower(ext) ==
    CASE ext = ".MD" -> ".md"
      [] ext = ".PDF" -> ".pdf"
      [] ext = ".RST" -> ".rst"
      [] OTHER -> ext

\* lines 50-63: the loop over the files, from file i on
RECURSIVE Walk(_, _, _)
Walk(files, i, documents) ==
    IF i > Len(files) THEN documents
    ELSE IF Lower(files[i].ext) \in Processors
    THEN IF files[i].raises
         THEN Walk(files, i + 1, documents)
         ELSE Walk(files, i + 1, Append(documents, files[i].text))
    ELSE Walk(files, i + 1, documents)

\* a load that gives up when a processor raises
load_documentsAborts(files) ==
    IF \E i \in 1..Len(files) :
          Lower(files[i].ext) \in Processors /\ files[i].raises
    THEN <<>>
    ELSE Walk(files, 1, <<>>)

\* load_documents, lines 26-66
load_documents(files) == Walk(files, 1, <<>>)

\* SentenceSplitter(chunk_size, chunk_overlap), sizes counted in sentences
CHUNK_SIZE == 2
CHUNK_OVERLAP == 1

RECURSIVE Split(_, _)
Split(text, from) ==
    IF from > Len(text) THEN <<>>
    ELSE IF from + CHUNK_SIZE > Len(text) THEN <<SubSeq(text, from, Len(text))>>
    ELSE <<SubSeq(text, from, from + CHUNK_SIZE - 1)>>
             \o Split(text, from + CHUNK_SIZE - CHUNK_OVERLAP)

\* node_parser.get_nodes_from_documents: the chunks of every document, in
\* order, each with a reference to its document
RECURSIVE get_nodes_from_documents(_, _)
get_nodes_from_documents(documents, i) ==
    IF i > Len(documents) THEN <<>>
    ELSE LET chunks == Split(documents[i], 1)
         IN  [j \in 1..Len(chunks) |-> [text |-> chunks[j], doc |-> i]]
                 \o get_nodes_from_documents(documents, i + 1)

\* embed_model: a vector of the text, here how often each sentence occurs
Embedding(text) ==
    <<Cardinality({i \in 1..Len(text) : text[i] = "sa"}),
      Cardinality({i \in 1..Len(text) : text[i] = "sb"})>>

\* VectorStoreIndex(nodes=..., embed_model=...): every node with its vector
VectorStoreIndex(nodes) ==
    [i \in 1..Len(nodes) |->
        [text |-> nodes[i].text, doc |-> nodes[i].doc,
         embedding |-> Embedding(nodes[i].text)]]

\* the best chunk of an index for a query text, the first of equals
Similarity(a, b) == a[1] * b[1] + a[2] * b[2]
Top1(index, text) ==
    IF index = <<>> THEN 0
    ELSE CHOOSE i \in 1..Len(index) :
           \A j \in 1..Len(index) :
              LET si == Similarity(index[i].embedding, Embedding(text))
                  sj == Similarity(index[j].embedding, Embedding(text))
              IN  si > sj \/ (si = sj /\ i <= j)

\* the parts of a pickle stream
NoNode == [text |-> <<>>, doc |-> 0, embedding |-> <<>>]
Mark(op) == [op |-> op, node |-> NoNode]

\* a stream that leaves the vectors out
PickleDropsVectors(index) ==
    <<Mark("proto")>>
        \o [i \in 1..Len(index) |->
               [op |-> "node", node |-> [index[i] EXCEPT !.embedding = <<>>]]]
        \o <<Mark("stop")>>

\* pickle.dump: a stream that starts with the protocol mark, holds the
\* object's parts and ends with the stop mark
Pickle(index) ==
    <<Mark("proto")>> \o [i \in 1..Len(index) |-> [op |-> "node", node |-> index[i]]]
        \o <<Mark("stop")>>

\* pickle.load: the object of a whole stream; anything else raises
Loadable(bytes) ==
    /\ Len(bytes) >= 2
    /\ bytes[1] = Mark("proto") /\ bytes[Len(bytes)] = Mark("stop")
    /\ \A i \in 2..(Len(bytes) - 1) : bytes[i].op = "node"
Unpickle(bytes) ==
    IF Loadable(bytes)
    THEN [raised |-> FALSE,
          index |-> [i \in 1..(Len(bytes) - 2) |-> bytes[i + 1].node]]
    ELSE [raised |-> TRUE, index |-> <<>>]

NoFile == [exists |-> FALSE, bytes |-> <<>>]
File(bytes) == [exists |-> TRUE, bytes |-> bytes]

\* _index_exists, lines 81-90
index_exists(d) == d.exists

\* a run of web_main.main that has not begun
OffBoot ==
    [n |-> 0, pc |-> "off", reachable |-> FALSE, confirmed |-> FALSE,
     pulls |-> 0, loaded |-> FALSE, files |-> <<>>, documents |-> <<>>,
     path |-> "none",
     nodes |-> <<>>, index |-> None, pending |-> <<>>, chunked |-> 0,
     embedded |-> 0, wrote |-> 0, err |-> "",
     built |-> None,     \* the index an earlier build persisted, if any
     prev |-> ""]        \* how the run before this one failed, if it did

\* the run that brought the server up: it built the index of a corpus
FirstTree == <<DocFile(".md", <<"sa", "sb", "sa">>, FALSE)>>
FirstCorpus == << <<"sa", "sb", "sa">> >>
ServingBoot ==
    LET nodes == get_nodes_from_documents(FirstCorpus, 1)
    IN  [OffBoot EXCEPT !.n = 1, !.pc = "serving", !.reachable = TRUE,
                        !.confirmed = TRUE, !.loaded = TRUE,
                        !.files = FirstTree,
                        !.documents = FirstCorpus, !.path = "build",
                        !.nodes = nodes,
                        !.index = Some(VectorStoreIndex(nodes)),
                        !.chunked = 1, !.embedded = Len(nodes),
                        !.wrote = Len(nodes) + 3,
                        !.built = Some(VectorStoreIndex(nodes))]

(* ------------------------------ handlers ------------------------------- *)
Init ==
    /\ sessions = <<>>
    /\ active_connections = <<>>
    /\ task = [t \in Tasks |-> IdleFrame]
    /\ future = [t \in Tasks |-> NoFuture]
    /\ open = [c \in Tasks |-> TRUE]
    /\ now = 0
    /\ nextMsg = 1
    /\ nextSession = 1
    /\ nq = 0
    /\ boot = ServingBoot
    /\ disk = File(Pickle(ServingBoot.index[1]))

\* websocket_endpoint, lines 160-179: accept, make the session, attach,
\* and suspend in the send of session_info
\* handlers are numbered in the order they start
Starts(t) == task[t].pc = "idle" /\ \A u \in 1..(t - 1) : task[u].pc # "idle"

WsConnect(c, session_id) ==
    /\ Starts(c)
    /\ session_id \in DOMAIN sessions \/ nextSession <= MaxGen
    /\ LET w1 == IF session_id \notin DOMAIN sessions
                 THEN LET g == create_session(World)
                      IN  IF session_id \notin DOMAIN g.s
                          THEN [g EXCEPT !.s = Put(@, session_id,
                                          WebChatSession(session_id, now))]
                          ELSE g
                 ELSE World
           w2 == [w1 EXCEPT !.ac = add_connection(@, session_id, c),
                            !.task[c] = [@ EXCEPT !.pc = "info", !.kind = "ws",
                                                  !.sid = session_id]]
       IN  Commit(w2)
    /\ UNCHANGED <<startup, open, now, nq>>

\* a disconnect that also cancels the queries under way on the session
DetachCancels(w, c) ==
    [w EXCEPT !.ac = remove_connection(@, w.task[c].sid, c),
              !.fut = [u \in Tasks |->
                         IF w.task[u].pc = "exec" /\ w.task[u].sid = w.task[c].sid
                         THEN NoFuture ELSE w.fut[u]],
              !.task = [u \in Tasks |->
                         IF u = c
                         THEN [IdleFrame EXCEPT !.pc = "closed", !.kind = "ws"]
                         ELSE IF w.task[u].pc = "exec"
                                 /\ w.task[u].sid = w.task[c].sid
                         THEN [w.task[u] EXCEPT !.pc = "done",
                                                !.result = "cancelled"]
                         ELSE w.task[u]]]

\* the handler's except blocks, lines 199-204; the coroutine ends
Detach(w, c) ==
    [w EXCEPT !.ac = remove_connection(@, w.task[c].sid, c),
              !.task = [Disturb(@, w.ac, w.task[c].sid, c)
                            EXCEPT ![c] = [IdleFrame EXCEPT !.pc = "closed", !.kind = "ws"]]]

\* a handler that reads client input right after session_info
SendInfoDoneSkipsHistory(c) ==
    /\ task[c].pc = "info"
    /\ IF open[c]
       THEN Commit([World EXCEPT !.task[c] = [@ EXCEPT !.pc = "recv"]])
       ELSE Commit(Detach(World, c))
    /\ UNCHANGED <<startup, open, now, nq>>

\* lines 176-186: session_info was sent (or the send raised)
SendInfoDone(c) ==
    /\ task[c].pc = "info"
    /\ IF open[c]
       THEN Commit([World EXCEPT !.task[c] =
                [@ EXCEPT !.pc = "hist",
                          !.history = get_session_history(
                                          sessions, task[c].sid, None)]])
       ELSE Commit(Detach(World, c))
    /\ UNCHANGED <<startup, open, now, nq>>

\* lines 183-190: history was sent (or the send raised)
SendHistDone(c) ==
    /\ task[c].pc = "hist"
    /\ IF open[c]
       THEN Commit([World EXCEPT !.task[c] =
                       [@ EXCEPT !.pc = "recv", !.history = <<>>]])
       ELSE Commit(Detach(World, c))
    /\ UNCHANGED <<startup, open, now, nq>>

\* the JSON objects a client sends: a type and a message text
MessageTexts == {"", "  ", " qa ", "qb"}
ClientMessages ==
    [type : {"chat", "ping"}, message : MessageTexts]

\* str.strip
Strip(text) ==
    CASE text = "  " -> ""
      [] text = " qa " -> "qa"
      [] OTHER -> text

\* a handler that takes the text as it comes
on_messageNoStrip(w, c, message_data, x) ==
    IF message_data.type = "chat" /\ message_data.message # ""
    THEN process_query_async(w, c, w.task[c].sid, message_data.message, x)
    ELSE w

\* lines 193-197: what the loop does with one parsed message
on_message(w, c, message_data, x) ==
    IF message_data.type = "chat"
    THEN LET query_text == Strip(message_data.message)
         IN  IF query_text # ""
             THEN process_query_async(w, c, w.task[c].sid, query_text, x)
             ELSE w
    ELSE w

\* lines 190-197: a chat message with a non-empty text
ReceiveChat(c, q, x) ==
    /\ task[c].pc = "recv" /\ open[c]
    /\ \E message_data \in ClientMessages :
          /\ message_data.type = "chat" /\ Strip(message_data.message) = q
          /\ Commit(on_message(World, c, message_data, x))
    /\ nq' = nq + 1
    /\ UNCHANGED <<startup, open, now>>

\* lines 190-195: valid JSON that is no chat message, or a blank text
ReceiveOther(c) ==
    /\ task[c].pc = "recv" /\ open[c]
    /\ \E message_data \in ClientMessages :
          /\ message_data.type # "chat" \/ Strip(message_data.message) = ""
          /\ Commit(on_message(World, c, message_data, TRUE))
    /\ UNCHANGED <<startup, open, now, nq>>

\* lines 191, 202-204: json.loads or .get raises
ReceiveMalformed(c) ==
    /\ task[c].pc = "recv" /\ open[c]
    /\ Commit(Detach(World, c))
    /\ open' = [open EXCEPT ![c] = FALSE]   \* the server closes the socket
    /\ UNCHANGED <<startup, now, nq>>

\* lines 190, 199-201: receive_text raises WebSocketDisconnect
ReceiveDisconnect(c) ==
    /\ task[c].pc = "recv" /\ ~open[c]
    /\ Commit(Detach(World, c))
    /\ UNCHANGED <<startup, open, now, nq>>

\* the client closes its end
ClientClose(c) ==
    /\ task[c].kind = "ws" /\ task[c].pc # "closed" /\ open[c]
    /\ open' = [open EXCEPT ![c] = FALSE]
    /\ UNCHANGED <<startup, sessions, active_connections, task, future, now, nextMsg,
                   nextSession, nq>>

SendResultKeepsFailed(w, t, ok) ==
    [w EXCEPT !.task[t].active = Append(@, w.task[t].cur)]

\* lines 93-98: send_text returned or raised
SendResult(w, t, ok) ==
    LET f == w.task[t]
    IN  IF ok
        THEN [w EXCEPT !.task[t].active = Append(@, f.cur)]
        ELSE [w EXCEPT !.task[t].failed = @ \cup {f.cur}]

SendDone(t, x) ==
    /\ task[t].pc = "send"
    /\ Commit(BroadcastLoop(SendResult(World, t, open[task[t].cur]), t, x))
    /\ UNCHANGED <<startup, open, now, nq>>

\* the worker thread runs QueryEngine.query
WorkerRun(t, outcome) ==
    /\ future[t] = Pending
    /\ future' = [future EXCEPT ![t] =
                     [state |-> "done", value |-> query(task[t].query, outcome)]]
    /\ task' = [task EXCEPT ![t].calls = @ + 1, ![t].outcome = outcome]
    /\ UNCHANGED <<startup, sessions, active_connections, open, now, nextMsg,
                   nextSession, nq>>

\* line 138: the await of the future ends
Resume(t, x) ==
    /\ task[t].pc = "exec" /\ future[t].state = "done"
    /\ LET v == future[t].value
           w == [World EXCEPT !.fut[t] = NoFuture]
       IN  Commit(IF v.raised
                  THEN OnError(w, t, v.text[2], x)
                  ELSE OnResponse(w, t, v.text, x))
    /\ UNCHANGED <<startup, open, now, nq>>

\* chat_endpoint, lines 97-117
ChatEndpoint(r, session_id, q, x) ==
    /\ Starts(r)
    /\ session_id = NoSid => nextSession <= MaxGen
    /\ LET w == [World EXCEPT !.task[r].kind = "rest",
                              !.task[r].req = session_id]
       IN  IF session_id = NoSid
           THEN Commit(process_query_async(create_session(w), r, nextSession, q, x))
           ELSE IF session_id \notin DOMAIN sessions
           THEN Commit([w EXCEPT !.task[r] =
                           [@ EXCEPT !.pc = "done", !.result = "404",
                                     !.seq = nq + 1]])
           ELSE Commit(process_query_async(w, r, session_id, q, x))
    /\ nq' = nq + 1
    /\ UNCHANGED <<startup, open, now>>

\* POST /api/sessions, lines 119-126
CreateSessionEndpoint ==
    /\ nextSession <= MaxGen
    /\ Commit(create_session(World))
    /\ UNCHANGED <<startup, open, now, nq>>

\* lines 222-227
sessions_to_removeInclusive(s, max_age_hours) ==
    LET cutoff_time == now - max_age_hours
    IN  {id \in DOMAIN s : s[id].last_activity <= cutoff_time}

sessions_to_remove(s, max_age_hours) ==
    LET cutoff_time == now - max_age_hours
    IN  {id \in DOMAIN s : s[id].last_activity < cutoff_time}

\* lines 222-234: the tables after the call, and the value it returns
cleanup_old_sessions(w, max_age_hours) ==
    LET gone == sessions_to_remove(w.s, max_age_hours)
    IN  [w |-> [w EXCEPT
                  !.s = [id \in DOMAIN w.s \ gone |-> w.s[id]],
                  !.ac = [id \in DOMAIN w.ac \ gone |-> w.ac[id]],
                  !.task = [u \in Tasks |->
                      IF w.task[u].sid \in gone
                      THEN [w.task[u] EXCEPT
                              !.sessLive = FALSE,
                              !.live = FALSE,
                              !.snap = IF w.task[u].live
                                       THEN w.ac[w.task[u].sid] ELSE @]
                      ELSE w.task[u]]],
         returns |-> Cardinality(gone)]

\* a caller of cleanup_old_sessions; src has none, the value is dropped
Sweep(max_age_hours) ==
    /\ Commit(cleanup_old_sessions(World, max_age_hours).w)
    /\ UNCHANGED <<startup, open, now, nq>>

\* get_session_info, web_server.py lines 128-138
GetSessionInfo(r, session_id) ==
    /\ Starts(r)
    /\ LET session_info == get_session_info(sessions, session_id)
       IN  task' = [task EXCEPT ![r] =
                      [@ EXCEPT !.pc = "done", !.kind = "info",
                                !.req = session_id,
                                !.result = IF session_info = None
                                           THEN "404" ELSE "200",
                                !.info = session_info]]
    /\ UNCHANGED <<startup, sessions, active_connections, future, open, now, nextMsg,
                   nextSession, nq>>

\* get_session_history, web_server.py lines 140-150
GetSessionHistory(r, session_id, limit) ==
    /\ Starts(r)
    /\ task' = [task EXCEPT ![r] =
                  IF session_id \notin DOMAIN sessions
                  THEN [@ EXCEPT !.pc = "done", !.kind = "hist",
                                 !.req = session_id, !.limit = limit,
                                 !.result = "404"]
                  ELSE [@ EXCEPT !.pc = "done", !.kind = "hist",
                                 !.req = session_id, !.limit = limit,
                                 !.result = "200",
                                 !.history = get_session_history(
                                                 sessions, session_id, limit)]]
    /\ UNCHANGED <<startup, sessions, active_connections, future, open, now, nextMsg,
                   nextSession, nq>>

Tick ==
    /\ now < MaxTime
    /\ now' = now + 1
    /\ UNCHANGED <<startup, sessions, active_connections, task, future, open, nextMsg,
                   nextSession, nq>>

\* the run takes up to n queries
Admit(n) == nq < n

Next ==
    \/ \E c \in Handlers, s \in Known(nextSession) : WsConnect(c, s)
    \/ \E c \in Handlers : SendInfoDone(c)
    \/ \E c \in Handlers : SendHistDone(c)
    \/ \E c \in Handlers, q \in Texts(nq), x \in BOOLEAN :
          Admit(MaxQueries) /\ ReceiveChat(c, q, x)
    \/ \E c \in Handlers : ReceiveOther(c)
    \/ \E c \in Handlers : ReceiveMalformed(c)
    \/ \E c \in Handlers : ReceiveDisconnect(c)
    \/ \E c \in Handlers : ClientClose(c)
    \/ \E t \in Handlers, x \in BOOLEAN : SendDone(t, x)
    \/ \E t \in Handlers, o \in BackendOutcomes : WorkerRun(t, o)
    \/ \E t \in Handlers, x \in BOOLEAN : Resume(t, x)
    \/ \E r \in Handlers, s \in Known(nextSession) \cup {NoSid},
          q \in Texts(nq), x \in BOOLEAN :
          Admit(MaxQueries) /\ ChatEndpoint(r, s, q, x)
    \/ \E r \in Handlers, s \in Known(nextSession) : GetSessionInfo(r, s)
    \/ \E r \in Handlers, s \in Known(nextSession), l \in Limits :
          GetSessionHistory(r, s, l)
    \/ CreateSessionEndpoint
    \/ \E a \in 0..MaxAge : Sweep(a)
    \/ Tick

Spec == Init /\ [][Next]_vars

\* a run under load: more handlers and queries; the clients stay connected,
\* the clock stands still and nobody calls cleanup_old_sessions
NextLoad ==
    \/ \E c \in Tasks, s \in Known(nextSession) : WsConnect(c, s)
    \/ \E c \in Tasks : SendInfoDone(c)
    \/ \E c \in Tasks : SendHistDone(c)
    \/ \E c \in Tasks, q \in Texts(nq), x \in BOOLEAN :
          Admit(LoadQueries) /\ ReceiveChat(c, q, x)
    \/ \E t \in Tasks, x \in BOOLEAN : SendDone(t, x)
    \/ \E t \in Tasks, o \in BackendOutcomes : WorkerRun(t, o)
    \/ \E t \in Tasks, x \in BOOLEAN : Resume(t, x)
    \/ \E r \in Tasks, s \in Known(nextSession) \cup {NoSid},
          q \in Texts(nq), x \in BOOLEAN :
          Admit(LoadQueries) /\ ChatEndpoint(r, s, q, x)

SpecLoad == Init /\ [][NextLoad]_vars

(* --------------------------- the startup run ---------------------------- *)
Ended == {"off", "stopped", "failed", "killed"}
Stop(b, why) == [b EXCEPT !.pc = "stopped", !.err = why]
Fail(b, why) == [b EXCEPT !.pc = "failed", !.err = why]

\* python web_main.py is started (again)
Boot ==
    /\ boot.pc \in Ended /\ boot.n < MaxBoots
    /\ boot' = [OffBoot EXCEPT !.n = boot.n + 1, !.pc = "tags",
                               !.built = boot.built,
                               !.prev = IF boot.pc = "failed" THEN boot.err
                                        ELSE ""]
    /\ UNCHANGED <<serving, disk>>

\* web_main.py lines 22-37: GET /api/tags answers 200, answers something
\* else, or raises
TagsOutcomes == {"200", "500", "raise"}
CheckReachable(outcome) ==
    /\ boot.pc = "tags"
    /\ boot' = IF outcome = "200"
               THEN [boot EXCEPT !.pc = "models", !.reachable = TRUE]
               ELSE Stop(boot, "Cannot connect to Ollama")
    /\ UNCHANGED <<serving, disk>>

\* lines 39-50, 66-67: the second GET /api/tags lists the model, does not
\* list it, answers another status, or raises (so does a body without
\* "models")
ModelOutcomes == {"listed", "absent", "500", "raise"}
CheckModel(outcome) ==
    /\ boot.pc = "models"
    /\ boot' = CASE outcome = "listed" ->
                      [boot EXCEPT !.pc = "docs", !.confirmed = TRUE]
                 [] outcome = "absent" -> [boot EXCEPT !.pc = "pull"]
                 [] outcome = "500" -> [boot EXCEPT !.pc = "docs"]
                 [] OTHER ->
                      [boot EXCEPT !.pc = "docs",
                                   !.err = "Could not check available models"]
    /\ UNCHANGED <<serving, disk>>

\* lines 51-65: POST /api/pull
PullModel(outcome) ==
    /\ boot.pc = "pull"
    /\ boot' = IF outcome = "200"
               THEN [boot EXCEPT !.pc = "docs", !.confirmed = TRUE,
                                 !.pulls = @ + 1]
               ELSE [Stop(boot, "Failed to pull model") EXCEPT !.pulls = @ + 1]
    /\ UNCHANGED <<serving, disk>>

\* lines 69-92: directories, repositories, load_documents
LoadDocuments(files) ==
    /\ boot.pc = "docs"
    /\ boot' = [boot EXCEPT !.pc = "index", !.loaded = TRUE, !.files = files,
                            !.documents = load_documents(files)]
    /\ UNCHANGED <<serving, disk>>

\* a build that checks the artifact against the documents first
LoadIndexChecksCorpus ==
    /\ boot.pc = "index" /\ index_exists(disk)
    /\ LET r == Unpickle(disk.bytes)
           fresh == VectorStoreIndex(get_nodes_from_documents(boot.documents, 1))
       IN  boot' = IF r.raised THEN Fail(boot, "pickle.load")
                   ELSE IF r.index = fresh
                   THEN [boot EXCEPT !.pc = "ready", !.path = "load",
                                     !.index = Some(r.index)]
                   ELSE [boot EXCEPT !.pc = "ready", !.path = "load",
                                     !.index = Some(fresh), !.chunked = @ + 1,
                                     !.embedded = @ + Len(fresh)]
    /\ UNCHANGED <<serving, disk>>

\* a load that builds again when the artifact cannot be read
LoadIndexRebuilds ==
    /\ boot.pc = "index" /\ index_exists(disk)
    /\ LET r == Unpickle(disk.bytes)
       IN  boot' = IF r.raised
                   THEN [boot EXCEPT !.pc = "embed", !.path = "build",
                              !.chunked = @ + 1,
                              !.nodes = get_nodes_from_documents(boot.documents, 1)]
                   ELSE [boot EXCEPT !.pc = "ready", !.path = "load",
                                     !.index = Some(r.index)]
    /\ UNCHANGED <<serving, disk>>

\* embedding_engine.py lines 50-58: the artifact exists; pickle.load
\* returns the index or raises, and the exception leaves main
LoadIndex ==
    /\ boot.pc = "index" /\ index_exists(disk)
    /\ LET r == Unpickle(disk.bytes)
       IN  boot' = IF r.raised THEN Fail(boot, "pickle.load")
                   ELSE [boot EXCEPT !.pc = "ready", !.path = "load",
                                     !.index = Some(r.index)]
    /\ UNCHANGED <<serving, disk>>

\* lines 59-62: no artifact; the documents are chunked (or the parser raises)
ChunkDocuments(ok) ==
    /\ boot.pc = "index" /\ ~index_exists(disk)
    /\ boot' = IF ok
               THEN [boot EXCEPT !.pc = "embed", !.path = "build",
                          !.chunked = @ + 1,
                          !.nodes = get_nodes_from_documents(boot.documents, 1)]
               ELSE [Fail(boot, "get_nodes_from_documents")
                          EXCEPT !.path = "build", !.chunked = @ + 1]
    /\ UNCHANGED <<serving, disk>>

\* a build that persists what it has when an embedding call raises
EmbedNodesKeepsPart(k) ==
    /\ boot.pc = "embed" /\ k \in 0..Len(boot.nodes)
    /\ IF k = Len(boot.nodes)
       THEN /\ boot' = [boot EXCEPT !.pc = "persist", !.embedded = @ + k,
                                    !.index = Some(VectorStoreIndex(boot.nodes))]
            /\ disk' = disk
       ELSE /\ boot' = [Fail(boot, "embedding") EXCEPT !.embedded = @ + k + 1]
            /\ disk' = File(Pickle(VectorStoreIndex(SubSeq(boot.nodes, 1, k))))
    /\ UNCHANGED serving

\* lines 64-73: VectorStoreIndex embeds the nodes one after the other; the
\* call for node k + 1 raises, or none does
EmbedNodes(k) ==
    /\ boot.pc = "embed" /\ k \in 0..Len(boot.nodes)
    /\ boot' = IF k = Len(boot.nodes)
               THEN [boot EXCEPT !.pc = "persist", !.embedded = @ + k,
                                 !.index = Some(VectorStoreIndex(boot.nodes))]
               ELSE [Fail(boot, "embedding") EXCEPT !.embedded = @ + k + 1]
    /\ UNCHANGED <<serving, disk>>

\* lines 76, 92-100: open(index.pkl, "wb") makes the file, or empties it
PersistOpen(ok) ==
    /\ boot.pc = "persist"
    /\ IF ok
       THEN /\ disk' = File(<<>>)
            /\ boot' = [boot EXCEPT !.pc = "write", !.wrote = @ + 1,
                                    !.pending = Pickle(boot.index[1])]
       ELSE /\ disk' = disk
            /\ boot' = Fail(boot, "open")
    /\ UNCHANGED serving

\* line 101: pickle.dump; the next part of the stream reaches the file, or
\* the write raises and the with block closes the file as it is
PersistWrite(ok) ==
    /\ boot.pc = "write" /\ boot.pending # <<>>
    /\ IF ok
       THEN /\ disk' = File(Append(disk.bytes, Head(boot.pending)))
            /\ boot' = [boot EXCEPT !.pending = Tail(@), !.wrote = @ + 1]
       ELSE /\ disk' = disk
            /\ boot' = Fail(boot, "pickle.dump")
    /\ UNCHANGED serving

\* lines 101-102, 79: the stream is written, load_or_create_index returns
PersistDone ==
    /\ boot.pc = "write" /\ boot.pending = <<>>
    /\ boot' = [boot EXCEPT !.pc = "ready", !.built = boot.index]
    /\ UNCHANGED <<serving, disk>>

\* web_main.py lines 101-118: QueryEngine(index), then run_server
StartServer(ok) ==
    /\ boot.pc = "ready"
    /\ boot' = IF ok THEN [boot EXCEPT !.pc = "serving"]
               ELSE Fail(boot, "QueryEngine")
    /\ UNCHANGED <<serving, disk>>

\* the process is stopped from outside, wherever it is
Kill ==
    /\ boot.pc \notin Ended
    /\ boot' = [boot EXCEPT !.pc = "killed"]
    /\ UNCHANGED <<serving, disk>>

InitStart ==
    /\ sessions = <<>>
    /\ active_connections = <<>>
    /\ task = [t \in Tasks |-> IdleFrame]
    /\ future = [t \in Tasks |-> NoFuture]
    /\ open = [c \in Tasks |-> TRUE]
    /\ now = 0
    /\ nextMsg = 1
    /\ nextSession = 1
    /\ nq = 0
    /\ boot = OffBoot
    /\ disk = NoFile

NextStart ==
    \/ Boot
    \/ \E o \in TagsOutcomes : CheckReachable(o)
    \/ \E o \in ModelOutcomes : CheckModel(o)
    \/ \E o \in TagsOutcomes : PullModel(o)
    \/ \E f \in Trees : LoadDocuments(f)
    \/ LoadIndex
    \/ \E ok \in BOOLEAN : ChunkDocuments(ok)
    \/ \E k \in 0..Len(boot.nodes) : EmbedNodes(k)
    \/ \E ok \in BOOLEAN : PersistOpen(ok)
    \/ \E ok \in BOOLEAN : PersistWrite(ok)
    \/ PersistDone
    \/ \E ok \in BOOLEAN : StartServer(ok)
    \/ Kill

SpecStart == InitStart /\ [][NextStart]_vars


(* ------------------------------- claims -------------------------------- *)
Count(seq, e) == Cardinality({i \in 1..Len(seq) : seq[i] = e})
Returned(t) == task[t].result \in {"success", "error"}
QueryEvents ==
    <<"message_user", "typing_start", "typing_stop", "message_assistant">>

\* C1: every process_query_async call on an existing session broadcasts
\* exactly one typing-stop event before it returns, on the success path
\* and on the path through the except block; never more than one.
C1_TypingStopOnce ==
    \A t \in Tasks :
        /\ Count(task[t].events, "typing_stop") <= 1
        /\ Returned(t) => Count(task[t].events, "typing_stop") = 1

\* a call that took the except block has returned
C1_Witness ==
    \E t \in Tasks : task[t].result = "error" /\ task[t].calls = 0

\* C2: the events of one query are broadcast in the order user message,
\* typing-start, typing-stop, assistant message: what has been broadcast so
\* far is a prefix of that order, and a returned call has emitted all four.
C2_EventOrder ==
    \A t \in Tasks :
        /\ IsPrefix(task[t].events, QueryEvents)
        /\ Returned(t) => task[t].events = QueryEvents

\* a call whose query was answered has returned
C2_Witness ==
    \E t \in Tasks : task[t].result = "success" /\ task[t].outcome = "ok"

\* C3: when the backend call of a query fails, the assistant message
\* recorded for it is error-flagged, the call ends as failed, and the
\* backend was invoked once.
C3_FailedBackendIsFlagged ==
    \A t \in Tasks :
        (task[t].outcome = "fail" /\ task[t].result # "none") =>
            /\ "error" \in task[t].assistant_message.metadata
            /\ task[t].result = "error"
            /\ task[t].calls = 1

\* C4: QueryEngine.query hands every backend failure to its caller as a
\* returned value: the future of the offloaded call never holds an exception.
C4_QueryNeverRaises ==
    \A t \in Tasks : future[t].state = "done" => ~future[t].value.raised

\* the offloaded call ended after the backend failed
C4_Witness ==
    \E t \in Tasks : future[t].state = "done" /\ task[t].outcome = "fail"

\* C5: the caller of QueryEngine.query can tell an answer from a failure:
\* a failed backend call reaches it as a typed error, never as an answer
\* string.
C5_FailureIsTypedError ==
    \A t \in Tasks :
        (future[t].state = "done" /\ task[t].outcome = "fail") =>
            future[t].value.type # "str"

\* the step in which the broadcast_to_session call of t ends
BroadcastEnds(t) ==
    /\ task[t].pc = "send"
    /\ task'[t].pc # "send" \/ task'[t].bk # task[t].bk

\* the connections the ending call sent to, and those whose send raised
SentBy(t) ==
    IF open[task[t].cur] THEN Append(task[t].active, task[t].cur)
    ELSE task[t].active
FailedBy(t) ==
    task[t].failed \cup (IF open[task[t].cur] THEN {} ELSE {task[t].cur})

Attached(c) ==
    task[c].kind = "ws" /\ task[c].pc \in {"info", "hist", "recv", "send", "exec"}
InList(ac, c) ==
    task[c].sid \in DOMAIN ac /\ c \in Range(ac[task[c].sid])

\* C7: under any interleaving, a connection that is attached and whose
\* sends succeed is sent every event of a broadcast that began while it was
\* in the list, and leaves the list only when its handler detaches it, a
\* send to it fails or the sweep removes the session.
C7_AttachedStayAttached ==
    [][\A c \in Tasks :
          (Attached(c) /\ open[c]) =>
            /\ \A t \in Tasks :
                  (BroadcastEnds(t) /\ task[t].sid = task[c].sid
                      /\ c \in Range(task[t].start) /\ task'[c].pc # "closed")
                  => c \in Range(SentBy(t))
            /\ (InList(active_connections, c) /\ ~InList(active_connections', c))
                  => \/ task'[c].pc = "closed"
                     \/ task[c].sid \notin DOMAIN sessions']_vars

\* C8: remove_connection is an idempotent removal: on a connection that is
\* not attached, or a session without an entry, it changes nothing; after
\* it the connection is not in the list, the other connections and entries
\* are as before, and a second call changes nothing.
C8_RemoveIdempotent ==
    \A s \in SessionIds \cup {NoSid}, c \in Tasks :
        LET ac == active_connections
            once == remove_connection(ac, s, c)
            twice == remove_connection(once, s, c)
        IN  /\ (s \notin DOMAIN ac \/ c \notin Range(ac[s])) => once = ac
            /\ DOMAIN once = DOMAIN ac
            /\ \A r \in DOMAIN ac :
                  once[r] = IF r = s THEN SelectSeq(ac[r], LAMBDA e : e # c)
                            ELSE ac[r]
            /\ twice = once

\* a handler has detached its connection while another stays attached
C8_Witness ==
    \E c \in Tasks, d \in Tasks :
        /\ task[c].pc = "closed" /\ Attached(d) /\ InList(active_connections, d)
        /\ ~InList(active_connections, c)

\* C9: in every step, every session that stays in the table keeps its
\* messages as a prefix of its new messages; a session leaves the table
\* only when its last activity is older than the clock.
C9_AppendOnly ==
    [][\A s \in DOMAIN sessions :
          IF s \in DOMAIN sessions'
          THEN IsPrefix(sessions[s].messages, sessions'[s].messages)
          ELSE sessions[s].last_activity < now]_vars

\* a session holds the two messages of a query
C9_Witness ==
    \E s \in DOMAIN sessions : Len(sessions[s].messages) = 2

MessageIds(session) == {session.messages[i].id : i \in 1..Len(session.messages)}

\* C10: add_message on a session of the table appends exactly one message,
\* as the last one, with a new id and the clock as timestamp; last_activity
\* does not go back; a history read right after has the message last; and
\* the message a handler was handed is in its session's history.
C10_AddMessage ==
    /\ \A s \in DOMAIN sessions, role \in {"user", "assistant"} :
          LET m == NewMessage(nextMsg, role, "qa", now, {})
              after == add_message(sessions[s], m, now)
              h == get_history(after, None)
          IN  /\ after.messages = Append(sessions[s].messages, m)
              /\ after.last_activity >= sessions[s].last_activity
              /\ after.last_activity = m.timestamp
              /\ m.id \notin MessageIds(sessions[s])
              /\ h[Len(h)] = m /\ Len(h) = Len(sessions[s].messages) + 1
    /\ \A t \in Tasks :
          (task[t].sessLive /\ task[t].sid \in DOMAIN sessions) =>
              \A m \in {task[t].user_message, task[t].assistant_message} \ {NoMsg} :
                  \E i \in 1..Len(sessions[task[t].sid].messages) :
                      sessions[task[t].sid].messages[i] = m

\* a message was appended to a session after the clock had moved on
C10_Witness ==
    \E s \in DOMAIN sessions :
        /\ sessions[s].messages # <<>>
        /\ sessions[s].last_activity > sessions[s].created_at

\* the step in which handler t makes a call that names a session id the
\* table does not have: a query on a websocket, or a REST request
AsksUnknown(t) ==
    \/ /\ task[t].kind = "ws" /\ task[t].pc = "recv"
       /\ task'[t].seq = nq + 1
       /\ task[t].sid \notin DOMAIN sessions
    \/ /\ task[t].pc = "idle"
       /\ task'[t].kind \in {"rest", "info", "hist"}
       /\ task'[t].req # NoSid
       /\ task'[t].req \notin DOMAIN sessions

\* C11: a query, a session-info request or a history request that names a
\* session id the table does not have ends with a not-found result (the
\* error dict, or 404), the handler goes on or ends normally, and the call
\* creates no session, appends no message, starts no broadcast and no
\* backend call, and leaves every other handler as it was.
C11_UnknownSessionNotFound ==
    [][\A t \in Tasks :
          AsksUnknown(t) =>
            /\ task'[t].result \in {"not_found", "404"}
            /\ task'[t].pc = (IF task[t].kind = "ws" THEN "recv" ELSE "done")
            /\ sessions' = sessions
            /\ active_connections' = active_connections
            /\ nextMsg' = nextMsg /\ nextSession' = nextSession
            /\ task'[t].events = <<>>
            /\ future' = future
            /\ \A u \in Tasks \ {t} : task'[u] = task[u]]_vars

\* a websocket's query found its session swept, and a history request
\* named an unknown id
C11_Witness ==
    \E t \in Tasks, u \in Tasks :
        /\ task[t].kind = "ws" /\ task[t].result = "not_found"
        /\ task[u].kind = "hist" /\ task[u].result = "404"

Min(a, b) == IF a <= b THEN a ELSE b
LastOf(messages, n) ==
    SubSeq(messages, Len(messages) - Min(n, Len(messages)) + 1, Len(messages))

\* C12: get_history gives the whole history in append order when no limit
\* is given, and for every limit n >= 0, 0 included, exactly the last
\* min(n, length) messages in append order; a history response with limit n
\* holds at most n messages.
C12_HistoryLimit ==
    /\ \A s \in DOMAIN sessions :
          /\ get_session_history(sessions, s, None) = sessions[s].messages
          /\ \A n \in 0..MaxLimit :
                get_session_history(sessions, s, Some(n))
                    = LastOf(sessions[s].messages, n)
    /\ \A t \in Tasks :
          (task[t].kind = "hist" /\ task[t].result = "200"
              /\ task[t].limit # None)
          => Len(task[t].history) <= task[t].limit[1]

\* C13: cleanup_old_sessions(max_age_hours), called in any reachable state,
\* removes exactly the sessions whose last_activity is before the clock
\* minus max_age_hours, leaves every other session as it was, messages
\* included, and returns the number of sessions it removed.
C13_SweepExact ==
    \A a \in 0..MaxAge :
        LET r == cleanup_old_sessions(World, a)
            old == {s \in DOMAIN sessions : sessions[s].last_activity + a < now}
        IN  /\ DOMAIN r.w.s = DOMAIN sessions \ old
            /\ \A s \in DOMAIN r.w.s : r.w.s[s] = sessions[s]
            /\ r.returns = Cardinality(old)
            /\ r.returns = Cardinality(DOMAIN sessions) - Cardinality(DOMAIN r.w.s)

\* the sweep has removed a generated session and kept one that holds
\* messages
C13_Witness ==
    /\ \E g \in GenIds : g < nextSession /\ g \notin DOMAIN sessions
    /\ \E s \in DOMAIN sessions : sessions[s].messages # <<>>

\* C14: once the sweep has removed a session, the connection table has no
\* entry for its id until a session with that id is created again: the step
\* that removes the session removes the entry, and no step gives an entry
\* to an id that has no session before and after it.
C14_SweptStaysDetached ==
    [][\A s \in SessionIds :
          /\ (s \in DOMAIN sessions /\ s \notin DOMAIN sessions')
                => s \notin DOMAIN active_connections'
          /\ (s \notin DOMAIN sessions /\ s \notin DOMAIN sessions'
                  /\ s \notin DOMAIN active_connections)
                => s \notin DOMAIN active_connections']_vars

\* handler r is a POST /api/chat without a session id: it made its own session
OwnSession(r) ==
    task[r].kind = "rest" /\ task[r].req = NoSid /\ task[r].sid # NoSid
\* no other handler has sent a query to the session of r
OnlyQuery(r) ==
    \A u \in Tasks \ {r} : task[u].seq = 0 \/ task[u].sid # task[r].sid
HasMessage(t, m) == m # NoMsg /\ m \in {task[t].user_message, task[t].assistant_message}

\* C15: of concurrent queries that each made their own session, none gets
\* stuck (each is suspended in a send or in the backend call until it
\* returns); once one has returned, its session's history is exactly its
\* user message (with its query) and then its assistant message (the answer
\* to that query when the backend answered); a message is in the history
\* of the session of its query only; and an event is sent only to a
\* websocket attached to the session of the query it belongs to.
C15_OwnSessionsIsolated ==
    /\ \A r \in Tasks :
          OwnSession(r) =>
            /\ task[r].pc \in {"send", "exec", "done"}
            /\ task[r].pc = "exec" => future[r] # NoFuture
            /\ task[r].pc = "done" =>
                  /\ Returned(r)
                  /\ OnlyQuery(r) =>
                        sessions[task[r].sid].messages
                            = <<task[r].user_message, task[r].assistant_message>>
                  /\ task[r].user_message.role = "user"
                  /\ task[r].user_message.content = task[r].query
                  /\ task[r].assistant_message.role = "assistant"
                  /\ task[r].outcome = "ok" =>
                        task[r].assistant_message.content
                            = <<"answer", task[r].query>>
    /\ \A s \in DOMAIN sessions, t \in Tasks :
          \A i \in 1..Len(sessions[s].messages) :
              HasMessage(t, sessions[s].messages[i]) => task[t].sid = s
    /\ \A s1 \in DOMAIN sessions, s2 \in DOMAIN sessions :
          s1 # s2 => MessageIds(sessions[s1]) \cap MessageIds(sessions[s2]) = {}
    /\ \A t \in Tasks :
          task[t].pc = "send" =>
              /\ task[task[t].cur].kind = "ws"
              /\ task[task[t].cur].sid = task[t].sid

\* two queries that each made their own session have returned, and a
\* websocket attached to one of the two sessions has been sent its events
C15_Witness ==
    \E r1 \in Tasks, r2 \in Tasks, c \in Tasks :
        /\ r1 # r2 /\ OwnSession(r1) /\ OwnSession(r2)
        /\ task[r1].pc = "done" /\ task[r2].pc = "done"
        /\ task[r1].sid # task[r2].sid
        /\ task[c].kind = "ws" /\ task[c].sid = task[r1].sid
        /\ task[c].pc = "recv" /\ InList(active_connections, c)
        /\ task[r1].outcome = "ok"

RECURSIVE SumLen(_, _)
SumLen(s, ids) ==
    IF ids = {} THEN 0
    ELSE LET id == CHOOSE i \in ids : TRUE
         IN  Len(s[id].messages) + SumLen(s, ids \ {id})
CountRole(messages, role) ==
    Cardinality({i \in 1..Len(messages) : messages[i].role = role})
\* no query is under way
Quiet(tk) == \A t \in Tasks : tk[t].pc \notin {"send", "exec"}
\* the queries taken so far that named a session of the table
Taken(tk, n) == n - Cardinality({t \in Tasks : tk[t].result \in {"404", "not_found"}})

\* the histories hold every message appended so far, each once, in the
\* session of its query; with every query finished they hold two messages
\* for each query, a user message and an assistant message
NoLostAppend(s, tk, mid, n) ==
    /\ SumLen(s, DOMAIN s) = mid - 1
    /\ \A id \in DOMAIN s :
          /\ Cardinality(MessageIds(s[id])) = Len(s[id].messages)
          /\ Quiet(tk) => CountRole(s[id].messages, "user")
                              = CountRole(s[id].messages, "assistant")
    /\ \A t \in Tasks :
          \A m \in {tk[t].user_message, tk[t].assistant_message} \ {NoMsg} :
              Count(s[tk[t].sid].messages, m) = 1
    /\ Quiet(tk) => SumLen(s, DOMAIN s) = 2 * Taken(tk, n)

\* C16: under any interleaving of queries, no append is lost or doubled:
\* after every step the histories hold every message appended so far
\* exactly once, and when all k queries have finished, exactly 2k
\* messages, a user and an assistant message for each; and a step changes
\* the history of a session only by appending messages of a query on
\* that session id.
C16_NoLostAppend ==
    [][/\ NoLostAppend(sessions', task', nextMsg', nq')
       /\ \A id \in DOMAIN sessions :
             (id \in DOMAIN sessions' /\ sessions'[id] # sessions[id]) =>
                \E t \in Tasks :
                    /\ task'[t].sid = id
                    /\ IsPrefix(sessions[id].messages, sessions'[id].messages)
                    /\ \A i \in (Len(sessions[id].messages) + 1)
                                    ..Len(sessions'[id].messages) :
                          sessions'[id].messages[i]
                              \in {task'[t].user_message,
                                   task'[t].assistant_message}
                                  \ {task[t].user_message,
                                     task[t].assistant_message}]_vars

\* two queries on one session have finished after their appends
\* interleaved: user, user, assistant, assistant
C16_Witness ==
    /\ Quiet(task) /\ nq = 2
    /\ \E s \in DOMAIN sessions :
          /\ Len(sessions[s].messages) = 4
          /\ sessions[s].messages[2].role = "user"

\* C17: in every session's history the messages are in the order they
\* were appended; the user messages of two queries on the session are in
\* the order the queries were accepted; and the user message of a query is
\* before the assistant message of that query.
C17_AcceptOrder ==
    /\ \A s \in DOMAIN sessions :
          \A i \in 1..Len(sessions[s].messages), j \in 1..Len(sessions[s].messages) :
              i < j => sessions[s].messages[i].id < sessions[s].messages[j].id
    /\ \A t \in Tasks, u \in Tasks :
          (/\ task[t].sid = task[u].sid /\ task[t].seq < task[u].seq
           /\ task[t].user_message # NoMsg /\ task[u].user_message # NoMsg)
          => /\ IndexOf(sessions[task[t].sid].messages, task[t].user_message) > 0
             /\ IndexOf(sessions[task[t].sid].messages, task[t].user_message)
                  < IndexOf(sessions[task[t].sid].messages, task[u].user_message)
    /\ \A t \in Tasks :
          task[t].assistant_message # NoMsg =>
             /\ IndexOf(sessions[task[t].sid].messages, task[t].user_message) > 0
             /\ IndexOf(sessions[task[t].sid].messages, task[t].user_message)
                  < IndexOf(sessions[task[t].sid].messages, task[t].assistant_message)

\* two queries on one session have finished, the later one first
C17_Witness ==
    \E t \in Tasks, u \in Tasks :
        /\ task[t].sid = task[u].sid /\ task[t].seq = 1 /\ task[u].seq = 2
        /\ Returned(t) /\ Returned(u)
        /\ IndexOf(sessions[task[t].sid].messages, task[u].assistant_message)
             < IndexOf(sessions[task[t].sid].messages, task[t].assistant_message)

\* the query of t is in the backend call
Generating(t) == task[t].pc = "exec"

\* C18: the backend call of a query runs off the event loop: the step in
\* which it runs is no step of a handler (the handler stays suspended in
\* run_in_executor and the tables and the other handlers are untouched);
\* while a query is generating, the step of another handler that is due
\* accepts and records a query and goes on to its broadcasts or its own
\* backend call, and a query on a new session gets to its backend call;
\* and a step that takes another query leaves the generating one as it is.
C18_OffLoop ==
    [][\A t \in Tasks :
          /\ task'[t].calls = task[t].calls + 1 =>
                /\ Generating(t) /\ task'[t].pc = "exec"
                /\ sessions' = sessions
                /\ active_connections' = active_connections
                /\ \A u \in Tasks \ {t} : task'[u] = task[u]
          /\ Generating(t) =>
                \A u \in Tasks \ {t} :
                    /\ (task[u].pc = "recv" /\ task[u].sid \in DOMAIN sessions) =>
                          LET w == process_query_async(World, u, task[u].sid,
                                                       "qa", TRUE)
                          IN  /\ w.task[u].user_message # NoMsg
                              /\ w.task[u].pc \in {"send", "exec"}
                              /\ w.task[t] = task[t] /\ w.fut[t] = future[t]
                    /\ (Starts(u) /\ nextSession <= MaxGen) =>
                          LET w == process_query_async(create_session(World), u,
                                                       nextSession, "qa", TRUE)
                          IN  /\ w.task[u].pc = "exec" /\ w.fut[u] = Pending
                              /\ w.task[t] = task[t] /\ w.fut[t] = future[t]
                    /\ task'[u].seq = nq + 1 =>
                          /\ task'[t] = task[t] /\ future'[t] = future[t]
                          /\ task'[u].result \in {"404", "not_found"}
                                \/ task'[u].user_message # NoMsg]_vars

\* two queries on different sessions are in their backend calls at once
C18_Witness ==
    \E t \in Tasks, u \in Tasks :
        /\ t # u /\ Generating(t) /\ Generating(u)
        /\ task[t].sid # task[u].sid
        /\ future[t] = Pending /\ future[u] = Pending

\* C19: a query in its backend call is not cancelled, whatever the
\* connections of its session do: it stays in the call, with the call
\* pending or finished, until the step that resumes it, and that step
\* appends its assistant message to the session's history (when the
\* session is still in the table), where a history read returns it.
C19_NoCancel ==
    [][\A t \in Tasks :
          Generating(t) =>
            /\ future[t] # NoFuture
            /\ \/ Generating(t)' /\ task'[t].assistant_message = NoMsg
                                  /\ future'[t] # NoFuture
               \/ /\ future[t].state = "done"
                  /\ task'[t].assistant_message # NoMsg
                  /\ task'[t].pc \in {"send", "recv", "done"}
                  /\ (task[t].sessLive /\ task[t].sid \in DOMAIN sessions) =>
                        LET h == get_session_history(sessions', task[t].sid, None)
                        IN  h # <<>> /\ h[Len(h)] = task'[t].assistant_message]_vars

\* the websocket that sent a query closed, its query has returned, and a
\* history request made afterwards holds the assistant message
C19_Witness ==
    \E t \in Tasks, u \in Tasks :
        /\ task[t].kind = "ws" /\ ~open[t] /\ Returned(t) /\ task[t].calls = 1
        /\ task[t].sid \in DOMAIN active_connections
        /\ active_connections[task[t].sid] = <<>>
        /\ task[u].kind = "hist" /\ task[u].req = task[t].sid
        /\ task[u].history # <<>>
        /\ task[u].history[Len(task[u].history)] = task[t].assistant_message

\* the states of a query, by the place of its process_query_async call
Recorded(t) == task[t].user_message # NoMsg
InFlight(t) == task[t].pc \in {"send", "exec"}
Completed(t) == task[t].result = "success"
Failed(t) == task[t].result = "error"

\* weak fairness of the steps of handler t, with the condition under which
\* each step can be taken written out: every send returns or raises, the
\* worker thread runs the call it was given (which returns or fails), and
\* the event loop resumes a coroutine whose await has ended
FairSteps(t) ==
    /\ []<>(task[t].pc # "send") \/ []<><<\E x \in BOOLEAN : SendDone(t, x)>>_vars
    /\ []<>(future[t] # Pending)
          \/ []<><<\E o \in BackendOutcomes : WorkerRun(t, o)>>_vars
    /\ []<>(~(task[t].pc = "exec" /\ future[t].state = "done"))
          \/ []<><<\E x \in BOOLEAN : Resume(t, x)>>_vars

\* C20: a query accepted for an existing session is recorded in the step
\* that accepts it, is generating only after it was recorded and its
\* typing-start was broadcast, and has ended only after the backend call
\* or the executor's refusal of it; the backend is run at most once for a
\* query and exactly once for a query that ended after the executor took
\* the call; and if the steps of its handler are taken fairly, every query
\* under way ends Completed or Failed.
C20_QueryEnds ==
    /\ [](\A t \in Tasks :
            /\ task[t].calls <= 1
            /\ InFlight(t) => Recorded(t) /\ task[t].result = "none"
            /\ Generating(t) =>
                  /\ task[t].events = <<"message_user", "typing_start">>
                  /\ task[t].assistant_message = NoMsg
            /\ task[t].calls = 1 => Generating(t) \/ task[t].outcome # "none"
            /\ (Completed(t) \/ Failed(t)) =>
                  /\ Recorded(t) /\ task[t].assistant_message # NoMsg
                  /\ task[t].calls = (IF task[t].err = "executor down"
                                      THEN 0 ELSE 1)
                  /\ Completed(t) => task[t].calls = 1)
    /\ \A t \in Handlers :
          FairSteps(t) => (InFlight(t) ~> (Completed(t) \/ Failed(t)))

\* a query whose backend call failed has ended
C20_Witness ==
    \E t \in Tasks :
        /\ task[t].kind = "rest" /\ task[t].pc = "done"
        /\ task[t].outcome = "fail" /\ task[t].calls = 1
        /\ Completed(t)

(* ------------------------------ claims 21-30 ---------------------------- *)
\* the handler of connection c has not read client input yet
Greeting(f) == f.pc \in {"idle", "info", "hist"}

\* C21: an accepted WebSocket connection gets the session_info event, then
\* the history event, and only then is client input read from it: a handler
\* starts in the send of session_info, goes from there only to the send of
\* history, which carries the session's messages of that moment in append
\* order, and comes to its first read only from the send of history; each
\* of the two events is sent once.
C21_GreetingOrder ==
    [][\A c \in Handlers :
          /\ task[c].pc = "idle" /\ task'[c].pc # "idle" /\ task'[c].kind = "ws"
                => task'[c].pc = "info"
          /\ task[c].pc = "info" /\ task'[c].pc # "info"
                => \/ task'[c].pc = "closed"
                   \/ /\ task'[c].pc = "hist"
                      /\ task'[c].history =
                            IF task[c].sid \in DOMAIN sessions
                            THEN sessions[task[c].sid].messages ELSE <<>>
          /\ task[c].pc = "hist" /\ task'[c].pc # "hist"
                => task'[c].pc \in {"recv", "closed"}
          /\ task'[c].pc \in {"info", "hist"} /\ task'[c].pc # task[c].pc
                => Greeting(task[c])
          /\ task[c].kind = "ws" /\ Greeting(task[c]) /\ ~Greeting(task'[c])
                /\ task'[c].pc # "closed"
                => task[c].pc = "hist" /\ task'[c].pc = "recv"]_vars

C21_Witness ==
    \E c \in Handlers :
        /\ task[c].kind = "ws" /\ task[c].pc = "hist"
        /\ Len(task[c].history) = 2

\* the step in which chat_endpoint takes request r
ChatStarts(r) == task[r].pc = "idle" /\ task'[r].kind = "rest" /\ task'[r].seq > 0

\* C22: POST /api/chat with no session_id, or with one that names no
\* session, makes one new session, processes the query in it and answers
\* with that session's id; with the id of an existing session it uses that
\* session and makes none.
C22_ChatMakesSession ==
    [][\A r \in Handlers : ChatStarts(r) =>
          LET f == task'[r]
              made == DOMAIN sessions' \ DOMAIN sessions
          IN  IF f.req \in DOMAIN sessions
              THEN made = {} /\ f.sid = f.req
              ELSE /\ made = {f.sid}
                   /\ f.result # "404"
                   /\ f.user_message \in Range(sessions'[f.sid].messages)]_vars

\* C23: create_session, called in any reachable state, returns an id that no
\* session of the table has, puts a session with no messages and an empty
\* connection list under that id and leaves every other session and list
\* as it was; in every reachable state each session is stored under its own
\* session_id, so no two sessions share an id.
C23_CreateSessionFresh ==
    /\ \A k \in DOMAIN sessions : sessions[k].session_id = k
    /\ \A j, k \in DOMAIN sessions :
          sessions[j].session_id = sessions[k].session_id => j = k
    /\ LET g == create_session(World)
           made == DOMAIN g.s \ DOMAIN sessions
       IN  /\ Cardinality(made) = 1
           /\ \A id \in made :
                 /\ g.s[id].session_id = id
                 /\ g.s[id].messages = <<>>
                 /\ id \in DOMAIN g.ac /\ g.ac[id] = <<>>
                 /\ id \notin DOMAIN active_connections
                 /\ \A k \in DOMAIN active_connections : g.ac[k] = active_connections[k]
                 /\ DOMAIN g.ac = DOMAIN active_connections \cup {id}
           /\ \A k \in DOMAIN sessions : g.s[k] = sessions[k]

C23_Witness ==
    \E id \in GenIds, k \in SessionIds :
        /\ id # k /\ id \in DOMAIN sessions /\ k \in DOMAIN sessions
        /\ id \in DOMAIN active_connections /\ k \in DOMAIN active_connections
        /\ sessions[id].messages = <<>> /\ active_connections[id] = <<>>
        /\ sessions[k].messages # <<>> /\ active_connections[k] # <<>>

\* what a build from the documents gives
Built(documents) == VectorStoreIndex(get_nodes_from_documents(documents, 1))

\* C24: load_or_create_index loads exactly when the artifact exists: it
\* then returns what pickle.load gives for the artifact, whatever the
\* documents are, chunks nothing, embeds nothing and leaves the artifact as
\* it is; without an artifact it builds, and a build that returns has made
\* the index of the documents and has persisted it.
C24_LoadIffExists ==
    [][/\ boot.pc = "index" /\ boot'.pc \notin {"index", "killed"} =>
            IF index_exists(disk)
            THEN /\ disk' = disk
                 /\ boot'.chunked = 0 /\ boot'.embedded = 0 /\ boot'.wrote = 0
                 /\ boot'.pc \in {"ready", "failed"}
                 /\ boot'.pc = "ready" =>
                       /\ boot'.path = "load"
                       /\ boot'.index = Some(Unpickle(disk.bytes).index)
            ELSE boot'.path = "build" /\ boot'.chunked = 1
       /\ boot.pc # "ready" /\ boot'.pc = "ready" /\ boot'.path = "build" =>
            /\ boot'.index = Some(Built(boot'.documents))
            /\ disk' = File(Pickle(Built(boot'.documents)))]_vars

C24_Witness ==
    /\ boot.pc = "ready" /\ boot.path = "load"
    /\ boot.index # Some(Built(boot.documents))
    /\ boot.index # Some(<<>>) /\ boot.documents # <<>>

\* C25: the artifact is written all or nothing: whenever the program is not
\* running, also after it stopped in the middle of _persist_index, and
\* whenever load_or_create_index is called, the artifact path has no file or
\* a file that pickle.load reads as a whole index.
C25_ArtifactAllOrNothing ==
    boot.pc \in Ended \cup {"index"} =>
        ~index_exists(disk) \/ Loadable(disk.bytes)

\* the texts asked of an index: every sentence and every chunk of it
Asked(index) == {<<w>> : w \in Sentences} \cup {index[i].text : i \in 1..Len(index)}

BuildFailures == {"get_nodes_from_documents", "embedding"}

\* C27: when the chunking or an embedding call of a build raises,
\* load_or_create_index raises, the run has written nothing and has no
\* index, the artifact path still has no file, and the run after it takes
\* the build path again.
C27_FailedBuildWritesNothing ==
    [][/\ boot'.pc = "failed" /\ boot.pc # "failed" /\ boot'.err \in BuildFailures =>
            /\ boot.pc \in {"index", "embed"}
            /\ disk' = disk /\ ~index_exists(disk')
            /\ boot'.wrote = 0 /\ boot'.index = None /\ boot'.built = None
       /\ boot.prev \in BuildFailures =>
            /\ ~index_exists(disk) \/ boot.path = "build"
            /\ boot.pc = "index" /\ boot'.pc \notin {"index", "killed"} =>
                  boot'.path = "build" /\ boot'.chunked = 1]_vars

C27_Witness ==
    /\ boot.prev = "embedding" /\ boot.pc = "write" /\ boot.path = "build"
    /\ boot.pending = <<>> /\ Len(boot.nodes) = 2

\* the artifact is there and pickle.load cannot read it
Corrupt(d) == index_exists(d) /\ Unpickle(d.bytes).raised

\* C28: when the artifact exists and cannot be deserialized,
\* load_or_create_index raises what pickle.load raised: nothing is chunked
\* or embedded, the artifact stays as it is, the run holds no index, and it
\* ends there: a failed run takes no further step and never serves.
C28_CorruptArtifactIsFatal ==
    [][/\ boot.pc = "index" /\ Corrupt(disk) /\ boot'.pc # "index" =>
            /\ boot'.pc \in {"failed", "killed"}
            /\ boot'.pc = "failed" => boot'.err = "pickle.load"
            /\ disk' = disk
            /\ boot'.chunked = 0 /\ boot'.embedded = 0 /\ boot'.wrote = 0
            /\ boot'.index = None
       /\ boot.pc = "failed" /\ boot' # boot =>
            boot'.pc = "tags" /\ boot'.n = boot.n + 1 /\ disk' = disk
       /\ boot'.pc = "serving" =>
            boot'.index # None /\ boot'.err # "pickle.load"]_vars

C28_Witness ==
    /\ boot.pc = "failed" /\ boot.err = "pickle.load" /\ Corrupt(disk)
    /\ boot.documents # <<>> /\ boot.prev = "pickle.load"

\* the run is past the checks of the backend
PastChecks(b) ==
    b.loaded \/ b.pc \in {"index", "embed", "persist", "write", "ready", "serving"}

\* C29: a run gets to loading documents, to the index and to serving only
\* when the backend answered the reachability check and the model was
\* listed or pulled; it asks for at most one pull.
C29_ServeOnlyWithModel ==
    /\ boot.pulls <= 1
    /\ PastChecks(boot) => boot.reachable /\ boot.confirmed

\* the kinds of failure in the handling of connection c: its handler ends
\* (malformed message, disconnect, raising send of the greeting), a send of
\* its broadcast raises, its query fails
HandlerFails(c) == Attached(c) /\ task'[c].pc = "closed"
SendFails(c) ==
    /\ task[c].pc = "send" /\ ~open[task[c].cur]
    /\ \/ task'[c].failed # task[c].failed
       \/ BroadcastEnds(c)
QueryFails(c) ==
    \/ task[c].err = "" /\ task'[c].err # ""
    \/ task[c].pc = "exec" /\ task'[c].pc # "exec" /\ task[c].outcome = "fail"
Culprits(c) ==
    (IF HandlerFails(c) THEN {c} ELSE {})
        \cup (IF task[c].pc = "send" THEN FailedBy(c) ELSE {})

\* the step leaves everything outside the sessions in own as it is
OthersUntouched(c, own) ==
    /\ \A k \in DOMAIN sessions \ own :
          k \in DOMAIN sessions' /\ sessions'[k] = sessions[k]
    /\ \A k \in DOMAIN active_connections \ own :
          k \in DOMAIN active_connections'
              /\ active_connections'[k] = active_connections[k]
    /\ \A u \in Handlers \ {c} : task'[u].pc = task[u].pc

\* C30: a step in which the handling of one connection fails changes the
\* history and the attachment list of no other session and moves no other
\* handler; of the failing connection's own session it takes at most the
\* failing connection out of the list.
C30_FailureIsContained ==
    [][\A c \in Handlers :
          (HandlerFails(c) \/ SendFails(c) \/ QueryFails(c)) =>
            /\ OthersUntouched(c, {task[c].sid, task'[c].sid})
            /\ \A k \in {task[c].sid} \cap DOMAIN active_connections
                          \cap DOMAIN active_connections' :
                  Range(active_connections[k]) \ Range(active_connections'[k])
                      \subseteq Culprits(c)]_vars

(* ------------------------------ claims 31-36 ---------------------------- *)
\* the files of a listing that give a document: supported extension and a
\* processor that returns
Gives(files) ==
    {i \in 1..Len(files) : Lower(files[i].ext) \in Processors /\ ~files[i].raises}

\* C31: load_documents returns exactly one document for each file that has
\* a supported extension and whose processor returned, in the order of the
\* traversal; a file whose processor raises is left out, the files before
\* and after it are loaded all the same, and the run goes on to the index.
C31_LoadSkipsFailures ==
    boot.loaded =>
        LET good == Gives(boot.files)
        IN  /\ boot.documents \in Corpora
            /\ Len(boot.documents) = Cardinality(good)
            /\ \A i \in good :
                  boot.documents[Cardinality({j \in good : j <= i})] = boot.files[i].text
            /\ boot.pc # "docs"
            /\ boot.pc = "failed" => boot.err # "load_documents"

\* a processor raised on a file after one document was loaded and before
\* another, and both are in the result
C31_Witness ==
    /\ boot.loaded /\ boot.pc = "index" /\ Len(boot.documents) = 2
    /\ \E i, j, k \in 1..Len(boot.files) :
          /\ i < j /\ j < k
          /\ {i, k} \subseteq Gives(boot.files)
          /\ boot.files[j].raises /\ Lower(boot.files[j].ext) \in Processors

\* the step in which websocket_endpoint accepts connection c
WsOpens(c) == task[c].pc = "idle" /\ task'[c].kind = "ws"

\* C32: a WebSocket opened on an id that names no session makes exactly one
\* session, stored under the id of the URL, with the new connection as the
\* only one attached to it; no other session is added to the table.
C32_OpenMakesOneSession ==
    [][\A c \in Handlers :
          (WsOpens(c) /\ task'[c].sid \notin DOMAIN sessions) =>
            LET id == task'[c].sid
            IN  /\ DOMAIN sessions' = DOMAIN sessions \cup {id}
                /\ sessions'[id].session_id = id
                /\ id \in DOMAIN active_connections'
                /\ active_connections'[id] = <<c>>]_vars

\* the step in which query t begins to send a typing-stop to the
\* connections of its session: from then on it is the session's most recent
\* typing event
TypingStopBegins(t) ==
    /\ task'[t].bk \in {"tstop", "etstop"} /\ task[t].bk \notin {"tstop", "etstop"}
    /\ task'[t].pc = "send"

\* C33: while a query of a session is generating, the session's most recent
\* typing event is a typing-start: no typing-stop is broadcast to a session
\* in which another query is generating, also when two queries overlap.
C33_TypingWhileGenerating ==
    [][\A t \in Tasks :
          TypingStopBegins(t) =>
            ~\E u \in Tasks \ {t} :
                /\ task[u].sid = task[t].sid
                /\ Generating(u) /\ task'[u].pc = "exec"
                /\ "typing_start" \in Range(task[u].events)]_vars

\* the message a broadcast of query t carries, if it carries one
Carried(t) ==
    CASE task[t].bk = "umsg" -> task[t].user_message
      [] task[t].bk \in {"amsg", "emsg"} -> task[t].assistant_message
      [] OTHER -> NoMsg

\* C34: no broadcast event is sent to a connection that has not been sent
\* its session_info and its history yet, and no message is sent to a
\* connection as a message event when its history snapshot holds it
\* already, whatever queries run on the session meanwhile.
C34_GreetingBeforeBroadcast ==
    \A t \in Tasks :
        task[t].pc = "send" =>
            /\ task[task[t].cur].pc # "info"
            /\ Carried(t) = NoMsg \/ Carried(t) \notin Range(task[task[t].cur].history)

\* the step in which the handling of a chat message read from connection c
\* ends and its handler goes back to reading
ChatHandled(c) ==
    /\ task[c].kind = "ws" /\ task'[c].pc = "recv"
    /\ \/ task[c].pc \in {"send", "exec"}
       \/ task[c].pc = "recv" /\ task'[c].seq # task[c].seq

\* C35: a chat message read from a connection whose transport stays open
\* gets its assistant message event sent on that connection: its handling
\* does not end before, whatever the other queries and the sweep have done
\* to the tables.
C35_AnswerIsDelivered ==
    [][\A c \in Handlers :
          (ChatHandled(c) /\ open[c]) =>
            /\ task[c].pc = "send" /\ task[c].bk \in {"amsg", "emsg"}
            /\ c \in Range(SentBy(c))]_vars

\* the texts that are empty or only whitespace
Blank == {"", "  "}

\* C36: a JSON object whose type is not chat, or whose text is empty or
\* only whitespace, read by a handler from its open connection, leaves
\* everything as it is: no message is appended, no event is broadcast, no
\* query is started, no session and no connection list changes, and the
\* handler is at receive_text again.
C36_OtherMessagesNoEffect ==
    \A c \in Handlers :
        (task[c].kind = "ws" /\ task[c].pc = "recv" /\ open[c]) =>
            \A message_data \in ClientMessages, x \in BOOLEAN :
                (message_data.type # "chat" \/ message_data.message \in Blank) =>
                    LET w == on_message(World, c, message_data, x)
                    IN  /\ w.s = sessions
                        /\ w.ac = active_connections
                        /\ w.task = task /\ w.task[c].pc = "recv"
                        /\ w.fut = future
                        /\ w.mid = nextMsg /\ w.gen = nextSession

C36_Witness ==
    \E c \in Handlers :
        /\ task[c].kind = "ws" /\ task[c].pc = "recv" /\ open[c]
        /\ InList(active_connections, c)
        /\ task[c].sid \in DOMAIN sessions
        /\ sessions[task[c].sid].messages # <<>>
        /\ \E t \in Handlers \ {c} : task[t].sid = task[c].sid /\ Generating(t)

====
